---------------------------- MODULE Spec2Model ----------------------------
(***************************************************************************)
(* A model of lecroy.py: ReadBinaryTrace decoding one LeCroy .trc file.    *)
(*                                                                         *)
(* The file is a sequence of bytes (0..255).  The state is the set of      *)
(* Python locals of ReadBinaryTrace plus the file position; one action     *)
(* per consecutive block of statements, sequenced by pc.  An exception     *)
(* ends the call: pc = "error" and err names the exception.                *)
(*                                                                         *)
(* Numbers.  Integer fields are decoded from their bytes in the byte order *)
(* in force.  IEEE-754 fields carry small integral values in the modelled  *)
(* files; their byte image is taken to be the two's complement image of    *)
(* the value (sign-extended to eight bytes for f8), which keeps the width  *)
(* and the effect of the byte order and leaves out the IEEE bit layout.    *)
(* Strings are sequences of byte values; the modelled files hold ASCII.    *)
(***************************************************************************)
EXTENDS Integers, Sequences, FiniteSets, TLC

VARIABLES file, pos, pc, err, str2, startOffset, co, divisions, v,
          WAVEDESC, TEXT, x, y1, y2, trigTime, trigOffset, npts, i

vars == <<file, pos, pc, err, str2, startOffset, co, divisions, v,
          WAVEDESC, TEXT, x, y1, y2, trigTime, trigOffset, npts, i>>

-----------------------------------------------------------------------------
(* Bounds of the modelled inputs. *)

\* largest WAVE_ARRAY_COUNT of a modelled file
MaxCount == 4

\* largest SUBARRAY_COUNT of a modelled file
MaxSeg == 3

-----------------------------------------------------------------------------
(* Program constants. *)

\* dataFile.read(32)
WindowSize == 32

\* str2[startOffset:startOffset+16], dataFile.seek(startOffset+16), read(16)
NameLen == 16

\* read(48) of VERTUNIT and HORUNIT
UnitLen == 48

\* str2[4:startOffset]
SizeSkip == 4

\* dataFile.seek(startOffset+34)
CommOrderOffset == 34

\* dataFile.seek(startOffset+36)
WaveDescriptorOffset == 36

\* if TIMEBASE_INDEX==100
ExternalCode == 100

\* int(TIMEBASE_INDEX / 3)-12
TimebaseExpBias == 12

\* int(FIXED_VERT_GAIN_INDEX / 3)-6
VertGainExpBias == 6

\* b'WAVEDESC'
WAVEDESC_TOKEN == <<87, 65, 86, 69, 68, 69, 83, 67>>

\* 'LECROY_2_3'
LECROY_2_3 == <<76, 69, 67, 82, 79, 89, 95, 50, 95, 51>>

\* '/div'
DIV_SUFFIX == <<47, 100, 105, 118>>

\* the byte set of rstrip(b'\0x00'): NUL, 'x', '0', '0'
StripSetTypo == {0, 120, 48}

\* the byte set of rstrip(b'\x00'): NUL
StripSetNul == {0}

-----------------------------------------------------------------------------
(* Python and numpy primitives. *)

Min(a, b) == IF a <= b THEN a ELSE b

Max(a, b) == IF a >= b THEN a ELSE b

\* bytes.rstrip(chars): drop the trailing bytes that belong to chars
RECURSIVE rstrip(_, _)
rstrip(b, chars) ==
    IF Len(b) > 0 /\ b[Len(b)] \in chars
    THEN rstrip(SubSeq(b, 1, Len(b) - 1), chars)
    ELSE b

\* b[lo:hi] of Python, for 0 <= lo
Slice(b, lo, hi) == SubSeq(b, lo + 1, Min(hi, Len(b)))

\* bytes.find(token): least 0-based index of an occurrence, -1 if none
Find(b, token) ==
    LET hits == {k \in 0..(Len(b) - Len(token)) :
                    SubSeq(b, k + 1, k + Len(token)) = token}
    IN IF hits = {} THEN -1
       ELSE CHOOSE k \in hits : \A h \in hits : k <= h

\* int.from_bytes(b, byteorder='little'); 0 for the empty string
RECURSIVE FromBytesLittle(_)
FromBytesLittle(b) ==
    IF Len(b) = 0 THEN 0
    ELSE b[1] + 256 * FromBytesLittle(SubSeq(b, 2, Len(b)))

\* a byte as a signed 8-bit value
Signed8(b) == IF b >= 128 THEN b - 256 ELSE b

\* the bytes of one item, least significant first, for byte order order
LsbFirst(b, order) ==
    IF order = "<" THEN b ELSE [k \in 1..Len(b) |-> b[Len(b) + 1 - k]]

\* a signed integer from the bytes of one item (widths 1, 2, 4; an f8 is
\* read from its four low-order bytes, the upper four being sign extension)
RECURSIVE SignedLsb(_)
SignedLsb(b) ==
    IF Len(b) = 1 THEN Signed8(b[1])
    ELSE b[1] + 256 * SignedLsb(SubSeq(b, 2, Len(b)))

DecodeItem(b, order) ==
    LET l == LsbFirst(b, order)
    IN SignedLsb(IF Len(l) > 4 THEN SubSeq(l, 1, 4) ELSE l)

\* dataFile.read(n) at position p: the bytes that exist, at most n
PyRead(p, n) == IF p >= Len(file) THEN <<>> ELSE SubSeq(file, p + 1, Min(p + n, Len(file)))

\* the position after dataFile.read(n) at position p
PyReadEnd(p, n) == IF p >= Len(file) THEN p ELSE Min(p + n, Len(file))

\* np.fromfile(dataFile, dtype, count) at position p: the number of whole
\* items of width w delivered; a negative count asks for all that remain,
\* and fewer than count are delivered without any error when the file ends
NpItems(p, w, count) ==
    LET avail == IF p >= Len(file) THEN 0 ELSE (Len(file) - p) \div w
    IN IF count < 0 THEN avail ELSE Min(count, avail)

\* the items np.fromfile delivers, decoded in byte order order
NpFromFile(p, w, order, count) ==
    [k \in 1..NpItems(p, w, count) |->
        DecodeItem(SubSeq(file, p + (k - 1) * w + 1, p + k * w), order)]

\* the position after np.fromfile: past the items, or the end of the file
\* when the read came up short
NpEnd(p, w, count) ==
    IF count >= 0 /\ NpItems(p, w, count) < count
    THEN Max(p, Len(file))
    ELSE p + NpItems(p, w, count) * w

\* tuple[index] of Python: a negative index counts from the end, and an
\* index outside -len..len-1 raises IndexError
TupleInRange(t, idx) == -Len(t) <= idx /\ idx < Len(t)

TupleGet(t, idx) == IF idx >= 0 THEN t[idx + 1] ELSE t[Len(t) + idx + 1]

\* int(a / 3) of Python: true division, truncation toward zero
IntDiv3(a) == IF a >= 0 THEN a \div 3 ELSE -((-a) \div 3)

-----------------------------------------------------------------------------
(* The header layout: the fields in the order ReadBinaryTrace reads them,   *)
(* each with its kind and width in bytes.  Kinds: "i" an integer and "f" a  *)
(* float, both in the byte order co; "b" an np.int8; "s" a string stripped  *)
(* with rstrip(b'\0x00'); "z" a string stripped with rstrip(b'\x00').       *)

Fld(name, kind, width) == [n |-> name, k |-> kind, w |-> width]

\* the four fields read around the byte-order probe
FieldsHead ==
    << Fld("DESCRIPTOR_NAME", "s", NameLen), Fld("TEMPLATE_NAME", "s", NameLen),
       Fld("COMM_TYPE_INDEX", "i", 2), Fld("COMM_ORDER_INDEX", "i", 2) >>

\* WAVE_DESCRIPTOR .. ACQ_DURATION
FieldsBody ==
    << Fld("WAVE_DESCRIPTOR", "i", 4), Fld("USER_TEXT", "i", 4),
       Fld("RES_DESC1", "i", 4), Fld("TRIGTIME_ARRAY", "i", 4),
       Fld("RIS_TIME_ARRAY", "i", 4), Fld("RES_ARRAY1", "i", 4),
       Fld("WAVE_ARRAY_1", "i", 4), Fld("WAVE_ARRAY_2", "i", 4),
       Fld("RES_ARRAY2", "i", 4), Fld("RES_ARRAY3", "i", 4),
       Fld("INSTRUMENT_NAME", "z", NameLen), Fld("INSTRUMENT_NUMBER", "i", 4),
       Fld("TRACE_LABEL", "z", NameLen),
       Fld("RESERVED1", "i", 2), Fld("RESERVED2", "i", 2),
       Fld("WAVE_ARRAY_COUNT", "i", 4), Fld("PNTS_PER_SCREEN", "i", 4),
       Fld("FIRST_VALID_PNT", "i", 4), Fld("LAST_VALID_PNT", "i", 4),
       Fld("FIRST_POINT", "i", 4), Fld("SPARSING_FACTOR", "i", 4),
       Fld("SEGMENT_INDEX", "i", 4), Fld("SUBARRAY_COUNT", "i", 4),
       Fld("SWEEPS_PER_ACQ", "i", 4),
       Fld("POINTS_PER_PAIR", "i", 2), Fld("PAIR_OFFSET", "i", 2),
       Fld("VERTICAL_GAIN", "f", 4), Fld("VERTICAL_OFFSET", "f", 4),
       Fld("MAX_VALUE", "f", 4), Fld("MIN_VALUE", "f", 4),
       Fld("NOMINAL_BITS", "i", 2), Fld("NOM_SUBARRAY_COUNT", "i", 2),
       Fld("HORIZ_INTERVAL", "f", 4), Fld("HORIZ_OFFSET", "f", 8),
       Fld("PIXEL_OFFSET", "f", 8),
       Fld("VERTUNIT", "s", UnitLen), Fld("HORUNIT", "s", UnitLen),
       Fld("HORIZ_UNCERTAINTY", "f", 4), Fld("TRIGGER_TIME_SECONDS", "f", 8),
       Fld("TRIGGER_TIME_MINUTES", "b", 1), Fld("TRIGGER_TIME_HOURS", "b", 1),
       Fld("TRIGGER_TIME_DAYS", "b", 1), Fld("TRIGGER_TIME_MONTHS", "b", 1),
       Fld("TRIGGER_TIME_YEAR", "i", 2), Fld("TRIGGER_TIME_UNUSED", "i", 2),
       Fld("ACQ_DURATION", "f", 4) >>

\* RECORD_TYPE_INDEX .. WAVE_SOURCE_INDEX
FieldsTail ==
    << Fld("RECORD_TYPE_INDEX", "i", 2), Fld("PROCESSING_DONE_INDEX", "i", 2),
       Fld("RESERVED5", "i", 2), Fld("RIS_SWEEPS", "i", 2),
       Fld("TIMEBASE_INDEX", "i", 2), Fld("VERT_COUPLING_INDEX", "i", 2),
       Fld("PROBE_ATT", "f", 4), Fld("FIXED_VERT_GAIN_INDEX", "i", 2),
       Fld("BANDWIDTH_LIMIT_INDEX", "i", 2), Fld("VERTICAL_VERNIER", "f", 4),
       Fld("ACQ_VERT_OFFSET", "f", 4), Fld("WAVE_SOURCE_INDEX", "i", 2) >>

\* the label tables of the enum fields
COMM_ORDER_TABLE == <<"HIFIRST", "LOFIRST">>

COMM_TYPE_TABLE == <<"byte", "word">>

RECORD_TYPE_TABLE ==
    <<"single sweep", "interleaved", "histogram", "graph", "filter_coefficient",
      "complex", "extrema", "sequence obsolete", "centered RIS", "peak detect">>

PROCESSING_DONE_TABLE ==
    <<"no processing", "fir filter", "interpolated", "sparsed", "autoscaled",
      "no result", "rolling", "cumulative">>

VERT_COUPLING_TABLE == <<"DC 50 Ohms", "ground", "DC 1MOhm", "ground", "AC 1MOhm">>

BANDWIDTH_LIMIT_TABLE == <<"off", "on">>

\* divisions = (1,2,5)
DIVISIONS == <<1, 2, 5>>

\* prefix = 'yzafpnum kMGTPEZY'
PREFIX == <<"y", "z", "a", "f", "p", "n", "u", "m", " ", "k", "M", "G", "T", "P", "E", "Z", "Y">>

-----------------------------------------------------------------------------
(* Reading a run of header fields. *)

\* the strip applied to a string field of kind k
StripSet(k) == IF k = "s" THEN StripSetTypo ELSE StripSetNul

\* whether the field f can be read at position p without an exception: a
\* numeric read of no item makes [0] raise IndexError, a short string read
\* raises nothing
FieldReadable(p, f) == f.k \in {"s", "z"} \/ NpItems(p, f.w, 1) = 1

\* the value of field f read at position p in byte order order
FieldValue(p, f, order) ==
    IF f.k \in {"s", "z"} THEN rstrip(PyRead(p, f.w), StripSet(f.k))
    ELSE NpFromFile(p, f.w, IF f.k = "b" THEN "<" ELSE order, 1)[1]

\* the position after reading field f at position p
FieldEnd(p, f) == IF f.k \in {"s", "z"} THEN PyReadEnd(p, f.w) ELSE NpEnd(p, f.w, 1)

\* read the fields fs in turn from position p: ok is FALSE when one of them
\* raises, vals maps the names read to their values, p is the position left
RECURSIVE ReadFields(_, _, _)
ReadFields(p, fs, order) ==
    IF Len(fs) = 0 THEN [ok |-> TRUE, p |-> p, vals |-> <<>>]
    ELSE IF ~FieldReadable(p, fs[1]) THEN [ok |-> FALSE, p |-> p, vals |-> <<>>]
    ELSE LET rest == ReadFields(FieldEnd(p, fs[1]), SubSeq(fs, 2, Len(fs)), order)
         IN [ok |-> rest.ok, p |-> rest.p,
             vals |-> (fs[1].n :> FieldValue(p, fs[1], order)) @@ rest.vals]

-----------------------------------------------------------------------------
(* float2eng, on a value f = mant * 10^exp with mant an integer of one     *)
(* digit (0 for the value 0, negative for a negative value): the value is  *)
(* carried as the pair.  The formatted mantissa f/(10**exeng) is carried   *)
(* as [m, pow] = m * 10^pow.                                               *)

\* abs(f), on the one-digit mantissa
Abs(n) == IF n < 0 THEN -n ELSE n

\* math.log(x, 10) is the quotient log(x)/log(10) of two doubles.  At these
\* exact powers of ten 10^e the quotient falls just below e (math.log(1000, 10)
\* is 2.9999999999999996), at every other 10^e within 10^-45..10^45 it is e.
LogShortAt == {3, 6, 9, 12, 13, 15, 18, 21, 23, 24, 26, 27, 29, 30, 31, 33, 36, 39, 42, 45}

\* math.floor(math.log(abs(f), 10)) for f = mant * 10^exp, mant # 0
FloorLog10(mant, exp) ==
    IF Abs(mant) = 1 /\ exp \in LogShortAt THEN exp - 1 ELSE exp

\* ex - ex % 3, with Python's % (the remainder has the sign of the divisor)
FloorMod3(ex) == ex - (ex % 3)

\* int((exeng+24)/3)
PrefixIndex(exeng) == (exeng + 24) \div 3

float2eng(mant, exp) ==
    LET ex    == IF mant # 0 THEN FloorLog10(mant, exp) ELSE 0
        exeng0 == FloorMod3(ex)
        exeng == IF exeng0 < -24 THEN -24 ELSE IF exeng0 > 24 THEN 24 ELSE exeng0
        id    == PrefixIndex(exeng)
        up    == IF id = 8 THEN "" ELSE PREFIX[id + 1]
    IN [m |-> mant, pow |-> exp - exeng, prefix |-> up,
        ex |-> ex, exeng |-> exeng, id |-> id]

\* float2eng(t) + unit + '/div' for t = divisions[index % 3] * 10**(int(index/3) - bias)
DerivedLabel(index, bias, unit) ==
    [eng |-> float2eng(DIVISIONS[(index % 3) + 1], IntDiv3(index) - bias),
     tail |-> unit \o DIV_SUFFIX]

\* the label 'EXTERNAL'
ExternalLabel == [literal |-> "EXTERNAL"]

-----------------------------------------------------------------------------
(* The exceptions that end a call. *)

ErrNotRecognizable == "RuntimeError: File is not in a recognizable format"

ErrTemplate == "RuntimeError: Template version different from LECROY_2_3"

ErrDescriptorLength == "RuntimeError: Wave descriptor is too long!"

ErrSegments == "RuntimeError: Number of data points is not a multiple of number of segments"

\* [0] on the empty array np.fromfile returns at the end of the file, or
\* trigTime[i] past the records read
ErrIndexArray == "IndexError: index out of bounds"

\* an enum code outside -len..len-1 of its label tuple
ErrIndexTuple == "IndexError: tuple index out of range"

\* divisions is bound only in the else branch of the TIMEBASE test
ErrUnbound == "UnboundLocalError: divisions"

\* np.zeros with a negative dimension, or reshape of an array of another size
ErrValue == "ValueError"

Raise(e) ==
    /\ pc' = "error"
    /\ err' = e

-----------------------------------------------------------------------------
(* The steps of ReadBinaryTrace. *)

SizePrefixWhole(window, so) == Slice(window, 0, so)

\* str2[4:startOffset]
SizePrefix(window, so) == Slice(window, SizeSkip, so)

\* str2 = dataFile.read(32) .. fileSize
Locate ==
    /\ pc = "locate"
    /\ str2' = PyRead(0, WindowSize)
    /\ pos' = PyReadEnd(0, WindowSize)
    /\ LET so == Find(str2', WAVEDESC_TOKEN)
       IN IF so = -1
          THEN /\ Raise(ErrNotRecognizable)
               /\ UNCHANGED <<startOffset, v>>
          ELSE /\ startOffset' = so
               /\ v' = ("DESCRIPTOR_NAME" :> rstrip(Slice(str2', so, so + NameLen), StripSetTypo))
                       @@ ("fileSize" :> FromBytesLittle(SizePrefix(str2', so)) + so)
               /\ pc' = "order"
               /\ err' = err
    /\ UNCHANGED <<file, co, divisions, WAVEDESC, TEXT, x, y1, y2,
                   trigTime, trigOffset, npts, i>>

\* what the steps that touch only the position and the locals leave alone
HeaderFrame ==
    UNCHANGED <<file, str2, startOffset, WAVEDESC, TEXT, x, y1, y2,
                trigTime, trigOffset, npts, i>>

\* dataFile.seek(startOffset+34) .. co
ReadCommOrder ==
    /\ pc = "order"
    /\ LET p == startOffset + CommOrderOffset
       IN /\ pos' = NpEnd(p, 2, 1)
          /\ IF NpItems(p, 2, 1) = 0
             THEN Raise(ErrIndexArray) /\ UNCHANGED <<v, co>>
             ELSE LET idx == NpFromFile(p, 2, "<", 1)[1]
                  IN IF ~TupleInRange(COMM_ORDER_TABLE, idx)
                     THEN Raise(ErrIndexTuple) /\ UNCHANGED <<v, co>>
                     ELSE /\ v' = ("COMM_ORDER_INDEX" :> idx)
                                  @@ ("COMM_ORDER" :> TupleGet(COMM_ORDER_TABLE, idx)) @@ v
                          /\ co' = IF TupleGet(COMM_ORDER_TABLE, idx) = "LOFIRST"
                                   THEN "<" ELSE ">"
                          /\ pc' = "template"
                          /\ err' = err
    /\ UNCHANGED divisions
    /\ HeaderFrame

\* dataFile.seek(startOffset+16) .. the template test
ReadTemplate ==
    /\ pc = "template"
    /\ LET p    == startOffset + NameLen
           name == rstrip(PyRead(p, NameLen), StripSetTypo)
       IN /\ pos' = PyReadEnd(p, NameLen)
          /\ IF name # LECROY_2_3
             THEN Raise(ErrTemplate) /\ v' = v
             ELSE /\ v' = ("TEMPLATE_NAME" :> name) @@ v
                  /\ pc' = "commtype"
                  /\ err' = err
    /\ UNCHANGED <<co, divisions>>
    /\ HeaderFrame

\* one enum field read at position p: the np.int16 code, its label looked
\* up in the tuple table, then the plain fields after it up to the next
\* enum; e names the exception raised, "" when none is
EnumRead(p, order, indexName, labelName, table, after) ==
    IF NpItems(p, 2, 1) = 0
    THEN [e |-> ErrIndexArray, p |-> NpEnd(p, 2, 1), vals |-> <<>>]
    ELSE LET idx == NpFromFile(p, 2, order, 1)[1]
             r   == ReadFields(NpEnd(p, 2, 1), after, order)
         IN IF ~TupleInRange(table, idx)
            THEN [e |-> ErrIndexTuple, p |-> NpEnd(p, 2, 1), vals |-> <<>>]
            ELSE IF ~r.ok
            THEN [e |-> ErrIndexArray, p |-> r.p, vals |-> <<>>]
            ELSE [e |-> "", p |-> r.p,
                  vals |-> (indexName :> idx) @@ (labelName :> TupleGet(table, idx))
                           @@ r.vals]

\* the effect of such a read on the locals, the position and the control
EnumStep(r, next) ==
    /\ pos' = r.p
    /\ IF r.e # ""
       THEN Raise(r.e) /\ v' = v
       ELSE /\ v' = r.vals @@ v
            /\ pc' = next
            /\ err' = err
    /\ UNCHANGED <<co, divisions>>
    /\ HeaderFrame

\* COMM_TYPE_INDEX, COMM_TYPE
ReadCommType ==
    /\ pc = "commtype"
    /\ EnumStep(EnumRead(pos, co, "COMM_TYPE_INDEX", "COMM_TYPE", COMM_TYPE_TABLE,
                         <<>>), "body")

\* dataFile.seek(startOffset+36), WAVE_DESCRIPTOR .. ACQ_DURATION
ReadBody ==
    /\ pc = "body"
    /\ LET r == ReadFields(startOffset + WaveDescriptorOffset, FieldsBody, co)
       IN /\ pos' = r.p
          /\ IF ~r.ok
             THEN Raise(ErrIndexArray) /\ v' = v
             ELSE /\ v' = r.vals @@ v
                  /\ pc' = "recordtype"
                  /\ err' = err
    /\ UNCHANGED <<co, divisions>>
    /\ HeaderFrame

\* RECORD_TYPE_INDEX, RECORD_TYPE
ReadRecordType ==
    /\ pc = "recordtype"
    /\ EnumStep(EnumRead(pos, co, "RECORD_TYPE_INDEX", "RECORD_TYPE", RECORD_TYPE_TABLE,
                         <<>>), "processing")

\* PROCESSING_DONE_INDEX, PROCESSING_DONE, RESERVED5, RIS_SWEEPS
ReadProcessingDone ==
    /\ pc = "processing"
    /\ EnumStep(EnumRead(pos, co, "PROCESSING_DONE_INDEX", "PROCESSING_DONE", PROCESSING_DONE_TABLE,
                         SubSeq(FieldsTail, 3, 4)), "timebase")

\* TIMEBASE_INDEX, TIMEBASE; divisions is assigned in the else branch only
ReadTimebase ==
    /\ pc = "timebase"
    /\ pos' = NpEnd(pos, 2, 1)
    /\ IF NpItems(pos, 2, 1) = 0
       THEN Raise(ErrIndexArray) /\ UNCHANGED <<v, divisions>>
       ELSE LET idx == NpFromFile(pos, 2, co, 1)[1]
            IN /\ IF idx = ExternalCode
                  THEN /\ v' = ("TIMEBASE_INDEX" :> idx) @@ ("TIMEBASE" :> ExternalLabel) @@ v
                       /\ divisions' = divisions
                  ELSE /\ v' = ("TIMEBASE_INDEX" :> idx)
                               @@ ("TIMEBASE" :> DerivedLabel(idx, TimebaseExpBias, v["HORUNIT"]))
                               @@ v
                       /\ divisions' = DIVISIONS
               /\ pc' = "coupling"
               /\ err' = err
    /\ co' = co
    /\ HeaderFrame

\* VERT_COUPLING_INDEX, VERT_COUPLING, PROBE_ATT
ReadVertCoupling ==
    /\ pc = "coupling"
    /\ EnumStep(EnumRead(pos, co, "VERT_COUPLING_INDEX", "VERT_COUPLING", VERT_COUPLING_TABLE,
                         SubSeq(FieldsTail, 7, 7)), "vertgain")

\* FIXED_VERT_GAIN_INDEX, FIXED_VERT_GAIN: reads divisions
ReadFixedVertGain ==
    /\ pc = "vertgain"
    /\ pos' = NpEnd(pos, 2, 1)
    /\ IF NpItems(pos, 2, 1) = 0
       THEN Raise(ErrIndexArray) /\ v' = v
       ELSE IF divisions = <<>>
       THEN Raise(ErrUnbound) /\ v' = v
       ELSE LET idx == NpFromFile(pos, 2, co, 1)[1]
            IN /\ v' = ("FIXED_VERT_GAIN_INDEX" :> idx)
                       @@ ("FIXED_VERT_GAIN" :> DerivedLabel(idx, VertGainExpBias, v["VERTUNIT"]))
                       @@ v
               /\ pc' = "bandwidth"
               /\ err' = err
    /\ UNCHANGED <<co, divisions>>
    /\ HeaderFrame

\* BANDWIDTH_LIMIT_INDEX, BANDWIDTH_LIMIT, VERTICAL_VERNIER, ACQ_VERT_OFFSET
ReadBandwidthLimit ==
    /\ pc = "bandwidth"
    /\ EnumStep(EnumRead(pos, co, "BANDWIDTH_LIMIT_INDEX", "BANDWIDTH_LIMIT", BANDWIDTH_LIMIT_TABLE,
                         SubSeq(FieldsTail, 10, 11)), "source")

\* WAVE_SOURCE_INDEX, WAVE_SOURCE = 'C%d' % (WAVE_SOURCE_INDEX + 1)
ReadWaveSource ==
    /\ pc = "source"
    /\ pos' = NpEnd(pos, 2, 1)
    /\ IF NpItems(pos, 2, 1) = 0
       THEN Raise(ErrIndexArray) /\ v' = v
       ELSE LET idx == NpFromFile(pos, 2, co, 1)[1]
            IN /\ v' = ("WAVE_SOURCE_INDEX" :> idx) @@ ("WAVE_SOURCE" :> <<"C", idx + 1>>) @@ v
               /\ pc' = "sanity"
               /\ err' = err
    /\ UNCHANGED <<co, divisions>>
    /\ HeaderFrame

\* the locals that are not keys of WAVEDESC under their own name
NotKeys ==
    {"fileSize", "TRIGGER_TIME_SECONDS", "TRIGGER_TIME_MINUTES", "TRIGGER_TIME_HOURS",
     "TRIGGER_TIME_DAYS", "TRIGGER_TIME_MONTHS", "TRIGGER_TIME_YEAR",
     "TRIGGER_TIME_UNUSED"}

\* the WAVEDESC dict built from the locals
MakeWavedesc(l) ==
    ("TRIGGER_TIME" :> << l["TRIGGER_TIME_SECONDS"], l["TRIGGER_TIME_MINUTES"],
                          l["TRIGGER_TIME_HOURS"], l["TRIGGER_TIME_DAYS"],
                          l["TRIGGER_TIME_MONTHS"], l["TRIGGER_TIME_YEAR"],
                          l["TRIGGER_TIME_UNUSED"] >>)
    @@ ("FILE_SIZE" :> l["fileSize"])
    @@ [k \in (DOMAIN l) \ NotKeys |-> l[k]]

LengthMismatchLoose(coffset, declared) == coffset > declared

\* if coffset != WAVE_DESCRIPTOR
LengthMismatch(coffset, declared) == coffset # declared

\* coffset = dataFile.tell()-startOffset, the length test, the WAVEDESC dict
SanityCheck ==
    /\ pc = "sanity"
    /\ LET coffset == pos - startOffset
       IN IF LengthMismatch(coffset, v["WAVE_DESCRIPTOR"])
          THEN Raise(ErrDescriptorLength) /\ WAVEDESC' = WAVEDESC
          ELSE /\ WAVEDESC' = MakeWavedesc(v)
               /\ pc' = "usertext"
               /\ err' = err
    /\ UNCHANGED <<file, pos, str2, startOffset, co, divisions, v, TEXT, x, y1, y2,
                   trigTime, trigOffset, npts, i>>

\* if USER_TEXT >0: TEXT = dataFile.read(USER_TEXT)
ReadUserText ==
    /\ pc = "usertext"
    /\ IF v["USER_TEXT"] > 0
       THEN /\ TEXT' = PyRead(pos, v["USER_TEXT"])
            /\ pos' = PyReadEnd(pos, v["USER_TEXT"])
       ELSE /\ TEXT' = <<>>
            /\ pos' = pos
    /\ pc' = "waveform"
    /\ UNCHANGED <<file, err, str2, startOffset, co, divisions, v, WAVEDESC, x, y1, y2,
                   trigTime, trigOffset, npts, i>>

\* the sample width in bytes: if COMM_TYPE_INDEX==0 'i1' else 'i2'
SampleWidth == IF v["COMM_TYPE_INDEX"] = 0 THEN 1 ELSE 2

\* raw * VERTICAL_GAIN - VERTICAL_OFFSET
Scale(raw) == raw * v["VERTICAL_GAIN"] - v["VERTICAL_OFFSET"]

UnevenOffByOne(count, sub) == count % sub > 1

\* if WAVE_ARRAY_COUNT % SUBARRAY_COUNT !=0
Uneven(count, sub) == count % sub # 0

\* if SUBARRAY_COUNT>1: the divisibility test and npts
SegCheck ==
    /\ pc = "waveform"
    /\ v["SUBARRAY_COUNT"] > 1
    /\ IF Uneven(v["WAVE_ARRAY_COUNT"], v["SUBARRAY_COUNT"])
       THEN Raise(ErrSegments) /\ npts' = npts
       ELSE /\ npts' = v["WAVE_ARRAY_COUNT"] \div v["SUBARRAY_COUNT"]
            /\ pc' = "trig"
            /\ err' = err
    /\ UNCHANGED <<file, pos, str2, startOffset, co, divisions, v, WAVEDESC, TEXT,
                   x, y1, y2, trigTime, trigOffset, i>>

\* trigArray = np.fromfile(count=SUBARRAY_COUNT) of two doubles each, x = np.zeros
ReadTrigArray ==
    /\ pc = "trig"
    /\ LET n == NpItems(pos, 16, v["SUBARRAY_COUNT"])
       IN /\ trigTime' = [k \in 1..n |->
                            DecodeItem(SubSeq(file, pos + 16 * (k - 1) + 1, pos + 16 * (k - 1) + 8), co)]
          /\ trigOffset' = [k \in 1..n |->
                            DecodeItem(SubSeq(file, pos + 16 * (k - 1) + 9, pos + 16 * k), co)]
    /\ pos' = NpEnd(pos, 16, v["SUBARRAY_COUNT"])
    /\ IF npts < 0
       THEN Raise(ErrValue) /\ UNCHANGED <<x, i>>
       ELSE /\ x' = [r \in 1..v["SUBARRAY_COUNT"] |-> [c \in 1..npts |-> 0]]
            /\ i' = 0
            /\ pc' = "fill"
            /\ err' = err
    /\ UNCHANGED <<file, str2, startOffset, co, divisions, v, WAVEDESC, TEXT, y1, y2, npts>>

\* np.arange(npts)*HORIZ_INTERVAL+horOffset
TimeRow(horOffset) == [c \in 1..npts |-> (c - 1) * v["HORIZ_INTERVAL"] + horOffset]

AssignUpTo(rows, first, row) ==
    [r \in 1..Len(rows) |-> IF r - 1 <= first THEN row ELSE rows[r]]

\* x[i:] = row: the rows i and after (0-based) are overwritten
AssignFrom(rows, first, row) ==
    [r \in 1..Len(rows) |-> IF r - 1 >= first THEN row ELSE rows[r]]

\* one turn of: for i in range(SUBARRAY_COUNT)
FillRow ==
    /\ pc = "fill"
    /\ IF i + 1 > Len(trigTime)
       THEN Raise(ErrIndexArray) /\ UNCHANGED <<x, i>>
       ELSE /\ x' = AssignFrom(x, i, TimeRow(trigTime[i + 1] + trigOffset[i + 1]))
            /\ i' = i + 1
            /\ pc' = IF i + 1 < v["SUBARRAY_COUNT"] THEN "fill" ELSE "segdata"
            /\ err' = err
    /\ UNCHANGED <<file, pos, str2, startOffset, co, divisions, v, WAVEDESC, TEXT, y1, y2,
                   trigTime, trigOffset, npts>>

\* y1 = np.fromfile(count=WAVE_ARRAY_COUNT).reshape(SUBARRAY_COUNT,npts)*gain-offset,
\* y2 = np.array([]), return
ReadSegData ==
    /\ pc = "segdata"
    /\ LET raw == NpFromFile(pos, SampleWidth, co, v["WAVE_ARRAY_COUNT"])
       IN IF Len(raw) # v["SUBARRAY_COUNT"] * npts
          THEN Raise(ErrValue) /\ UNCHANGED <<y1, y2>>
          ELSE /\ y1' = [r \in 1..v["SUBARRAY_COUNT"] |->
                           [c \in 1..npts |-> Scale(raw[(r - 1) * npts + c])]]
               /\ y2' = <<>>
               /\ pc' = "done"
               /\ err' = err
    /\ pos' = NpEnd(pos, SampleWidth, v["WAVE_ARRAY_COUNT"])
    /\ UNCHANGED <<file, str2, startOffset, co, divisions, v, WAVEDESC, TEXT, x,
                   trigTime, trigOffset, npts, i>>

\* the single-sweep branch: y1, y2 if WAVE_ARRAY_2>0, x, return
ReadSingleSweep ==
    /\ pc = "waveform"
    /\ ~(v["SUBARRAY_COUNT"] > 1)
    /\ LET n    == v["WAVE_ARRAY_COUNT"]
           raw1 == NpFromFile(pos, SampleWidth, co, n)
           p1   == NpEnd(pos, SampleWidth, n)
           raw2 == NpFromFile(p1, SampleWidth, co, n)
       IN /\ y1' = [k \in 1..Len(raw1) |-> Scale(raw1[k])]
          /\ IF v["WAVE_ARRAY_2"] > 0
             THEN /\ y2' = [k \in 1..Len(raw2) |-> Scale(raw2[k])]
                  /\ pos' = NpEnd(p1, SampleWidth, n)
             ELSE /\ y2' = <<>>
                  /\ pos' = p1
          /\ x' = [j \in 1..n |-> (j - 1) * v["HORIZ_INTERVAL"] + v["HORIZ_OFFSET"]]
    /\ pc' = "done"
    /\ UNCHANGED <<file, err, str2, startOffset, co, divisions, v, WAVEDESC, TEXT,
                   trigTime, trigOffset, npts, i>>

-----------------------------------------------------------------------------
(* The files the model decodes.  A file is written from a description:     *)
(* the bytes before the header, the value of every header field (0 or the  *)
(* empty string when not given), the byte order the numbers are written    *)
(* in, the bytes after the header, and the length the file is cut to.      *)

AllFields == FieldsHead \o FieldsBody \o FieldsTail

RECURSIVE SumWidths(_)
SumWidths(fs) == IF Len(fs) = 0 THEN 0 ELSE fs[1].w + SumWidths(SubSeq(fs, 2, Len(fs)))

Zeros(n) == [k \in 1..n |-> 0]

\* the two's complement image of val in w bytes, in byte order order
EncInt(val, w, order) ==
    LET pow == <<1, 256, 65536, 16777216>>
        lsb == [k \in 1..w |-> IF k <= 4 THEN (val \div pow[k]) % 256
                               ELSE IF val < 0 THEN 255 ELSE 0]
    IN LsbFirst(lsb, order)

EncField(f, val, order) ==
    IF f.k \in {"s", "z"} THEN SubSeq(val \o Zeros(f.w - Len(val)), 1, f.w)
    ELSE IF f.n = "COMM_ORDER_INDEX" \/ f.k = "b" THEN EncInt(val, f.w, "<")
    ELSE EncInt(val, f.w, order)

FieldOf(vals, f) ==
    IF f.n \in DOMAIN vals THEN vals[f.n]
    ELSE IF f.k \in {"s", "z"} THEN <<>> ELSE 0

RECURSIVE EncFields(_, _, _)
EncFields(fs, vals, order) ==
    IF Len(fs) = 0 THEN <<>>
    ELSE EncField(fs[1], FieldOf(vals, fs[1]), order)
         \o EncFields(SubSeq(fs, 2, Len(fs)), vals, order)

FileOf(d) ==
    LET full == d.prefix \o EncFields(AllFields, d.vals, d.order) \o d.payload
    IN IF d.cut < 0 THEN full ELSE SubSeq(full, 1, Min(d.cut, Len(full)))

\* a well-formed header: single sweep, no samples
Base(order, ctype) ==
    [prefix |-> <<>>, order |-> order, payload |-> <<>>, cut |-> -1,
     vals |-> [DESCRIPTOR_NAME |-> WAVEDESC_TOKEN, TEMPLATE_NAME |-> LECROY_2_3,
               COMM_TYPE_INDEX |-> ctype,
               COMM_ORDER_INDEX |-> IF order = "<" THEN 1 ELSE 0,
               WAVE_DESCRIPTOR |-> SumWidths(AllFields),
               INSTRUMENT_NAME |-> <<76, 69, 67, 82, 79, 89>>,
               TRACE_LABEL |-> <<67, 49>>,
               SUBARRAY_COUNT |-> 1,
               VERTICAL_GAIN |-> 2, VERTICAL_OFFSET |-> 1,
               HORIZ_INTERVAL |-> 3, HORIZ_OFFSET |-> -5,
               VERTUNIT |-> <<86>>, HORUNIT |-> <<83>>,
               TIMEBASE_INDEX |-> 36, FIXED_VERT_GAIN_INDEX |-> 18]]

With(d, name, val) == [d EXCEPT !.vals = (name :> val) @@ @]

\* the raw value of the k-th sample of a modelled file
RawSample(k, w) == IF w = 1 THEN 3 * k - 5 ELSE 300 * k - 500

Samples(n, w, order) ==
    LET RECURSIVE go(_)
        go(k) == IF k > n THEN <<>> ELSE EncInt(RawSample(k, w), w, order) \o go(k + 1)
    IN go(1)

\* the trigger time and the trigger offset of segment k (1-based) of a modelled file
TrigTimeOf(k) == 10 * k

TrigOffsetOf(k) == k

TrigRecords(n, order) ==
    LET RECURSIVE go(_)
        go(k) == IF k > n THEN <<>>
                 ELSE EncInt(TrigTimeOf(k), 8, order) \o EncInt(TrigOffsetOf(k), 8, order)
                      \o go(k + 1)
    IN go(1)

\* a header declaring text bytes of user text, sub segments, n samples and
\* a secondary array length wa2, followed by the matching payload with drop
\* bytes missing from its end and extra bytes added to it
Wave(order, ctype, text, sub, n, wa2, drop, extra) ==
    LET w    == IF ctype = 0 THEN 1 ELSE 2
        body == [k \in 1..text |-> 65]
                \o (IF sub > 1 THEN TrigRecords(sub, order) ELSE <<>>)
                \o Samples(n, w, order)
                \o (IF wa2 > 0 /\ sub <= 1 THEN Samples(n, w, order) ELSE <<>>)
        h    == With(With(With(With(Base(order, ctype), "USER_TEXT", text),
                     "SUBARRAY_COUNT", sub), "WAVE_ARRAY_COUNT", n), "WAVE_ARRAY_2", wa2)
    IN [h EXCEPT !.payload = SubSeq(body, 1, Len(body) - drop) \o [k \in 1..extra |-> 7]]

Orders == {"<", ">"}

\* prefixes of length m: zero bytes, with the byte b at position q where given
PrefixBytes(m, q, b) == [k \in 1..m |-> IF k - 1 = q THEN b ELSE 0]

FilesLocate ==
    { FileOf([Wave("<", 0, 0, 1, 2, 0, 0, 0) EXCEPT !.prefix = PrefixBytes(m, q, b)]) :
        m \in 0..(WindowSize - 7), q \in {0, 1, 3, 4, 5, 6}, b \in {0, 1, 255} }
    \cup { FileOf([Wave("<", 0, 0, 1, 2, 0, 0, 0) EXCEPT !.prefix = WAVEDESC_TOKEN \o Zeros(8)]),
           FileOf([Wave("<", 0, 0, 1, 2, 0, 0, 0) EXCEPT !.prefix = <<35, 57, 48, 48, 48, 48>>]) }

FilesOrder ==
    { FileOf(With(Wave(o, 0, 0, 1, 2, 0, 0, 0), "COMM_ORDER_INDEX", c)) :
        o \in Orders, c \in {-32768, -3, -2, -1, 0, 1, 2, 256, 32767} }

EnumFields ==
    { <<"COMM_TYPE_INDEX", 2>>, <<"RECORD_TYPE_INDEX", 10>>, <<"PROCESSING_DONE_INDEX", 8>>,
      <<"VERT_COUPLING_INDEX", 5>>, <<"BANDWIDTH_LIMIT_INDEX", 2>> }

FilesEnum ==
    UNION { { FileOf(With(Wave(o, 0, 0, 1, 2, 0, 0, 0), e[1], c)) :
                o \in Orders, c \in (-e[2] - 2)..(e[2] + 1) } : e \in EnumFields }

FilesTimebase ==
    { FileOf(With(With(Wave(o, 0, 0, 1, 2, 0, 0, 0), "TIMEBASE_INDEX", t),
                  "FIXED_VERT_GAIN_INDEX", g)) :
        o \in Orders, t \in {-4, -1, 0, 1, 2, 35, 36, 37, 99, 100, 101, 110},
        g \in {-1, 0, 4, 18, 20, 100} }

FilesLength ==
    { FileOf(With(Wave(o, 0, t, 1, 2, 0, 0, 0), "WAVE_DESCRIPTOR", SumWidths(AllFields) + d)) :
        o \in Orders, t \in {0, 3},
        d \in {-SumWidths(AllFields) - 1, -SumWidths(AllFields), -2, -1, 0, 1, 2,
               SumWidths(AllFields), 100000} }

Strings ==
    { <<>>, <<86>>, <<108, 117, 120>>, <<86, 48>>, <<120, 48>>, <<97, 0, 98>>, <<48>>,
      <<120>>, <<109, 47, 115>>, <<120, 0, 48, 0>>, [k \in 1..NameLen |-> 65],
      LECROY_2_3 \o <<120>>, LECROY_2_3 \o <<48, 48>>, <<76, 69, 67>>,
      WAVEDESC_TOKEN \o <<120>>, WAVEDESC_TOKEN \o <<95, 49, 48>> }

StringFields ==
    {"DESCRIPTOR_NAME", "TEMPLATE_NAME", "INSTRUMENT_NAME", "TRACE_LABEL", "VERTUNIT", "HORUNIT"}

FilesString ==
    { FileOf(With(Wave("<", 0, 0, 1, 2, 0, 0, 0), f,
                  IF f = "DESCRIPTOR_NAME" /\ SubSeq(s, 1, Min(8, Len(s))) # WAVEDESC_TOKEN
                  THEN WAVEDESC_TOKEN \o s ELSE s)) :
        f \in StringFields, s \in Strings }

FilesWave ==
    { FileOf(Wave(o, c, 0, sub, n, wa2, drop, extra)) :
        o \in Orders, c \in {0, 1}, sub \in 0..MaxSeg, n \in -1..MaxCount, wa2 \in {0, 5},
        drop \in 0..3, extra \in {0} }
    \cup { FileOf(Wave(o, c, t, sub, n, wa2, 0, extra)) :
        o \in Orders, c \in {0, 1}, sub \in 0..MaxSeg, n \in -1..MaxCount, wa2 \in {-1, 0, 5},
        t \in {0, 2}, extra \in {0, 2} }

FilesCut ==
    { FileOf([d EXCEPT !.cut = l]) :
        d \in { Wave("<", 0, 2, 1, 3, 5, 0, 0), Wave(">", 1, 0, 2, 4, 0, 0, 0),
                Wave(">", 1, 1, 1, 2, 0, 0, 0) },
        l \in 0..(SumWidths(AllFields) + 50) }

Files ==
    FilesLocate \cup FilesOrder \cup FilesEnum \cup FilesTimebase \cup FilesLength
    \cup FilesString \cup FilesWave \cup FilesCut

-----------------------------------------------------------------------------

Init ==
    /\ file \in Files
    /\ pos = 0
    /\ pc = "locate"
    /\ err = ""
    /\ str2 = <<>>
    /\ startOffset = -1
    /\ co = ""
    /\ divisions = <<>>
    /\ v = <<>>
    /\ WAVEDESC = <<>>
    /\ TEXT = <<>>
    /\ x = <<>>
    /\ y1 = <<>>
    /\ y2 = <<>>
    /\ trigTime = <<>>
    /\ trigOffset = <<>>
    /\ npts = 0
    /\ i = 0

Next ==
    \/ Locate
    \/ ReadCommOrder
    \/ ReadTemplate
    \/ ReadCommType
    \/ ReadBody
    \/ ReadRecordType
    \/ ReadProcessingDone
    \/ ReadTimebase
    \/ ReadVertCoupling
    \/ ReadFixedVertGain
    \/ ReadBandwidthLimit
    \/ ReadWaveSource
    \/ SanityCheck
    \/ ReadUserText
    \/ SegCheck
    \/ ReadTrigArray
    \/ FillRow
    \/ ReadSegData
    \/ ReadSingleSweep

Spec == Init /\ [][Next]_vars

-----------------------------------------------------------------------------
(* What the properties below read off the file and the state. *)

\* the header has been located
Located == startOffset >= 0

\* the bytes of the file at header offsets off .. off+w-1
HeaderBytes(off, w) == SubSeq(file, startOffset + off + 1, startOffset + off + w)

\* the file holds the w bytes at header offset off
HeaderHas(off, w) == Located /\ Len(file) >= startOffset + off + w

\* the 16-bit signed value at header offset off, low byte first or high byte first
RawLow16(off) == HeaderBytes(off, 2)[1] + 256 * Signed8(HeaderBytes(off, 2)[2])

RawHigh16(off) == HeaderBytes(off, 2)[2] + 256 * Signed8(HeaderBytes(off, 2)[1])

Raw16(off) == IF co = "<" THEN RawLow16(off) ELSE RawHigh16(off)

\* the step that reads the field at pc value at has been taken
Past(at) ==
    LET order == <<"locate", "order", "template", "commtype", "body", "recordtype",
                   "processing", "timebase", "coupling", "vertgain", "bandwidth", "source",
                   "sanity", "usertext", "waveform">>
        idx(q) == CHOOSE k \in 1..Len(order) : order[k] = q
    IN pc \in {"trig", "fill", "segdata", "done"}
       \/ (pc \in {order[k] : k \in 1..Len(order)} /\ idx(pc) > idx(at))

\* the header has been decoded in full and has passed the length test
HeaderDecoded == DOMAIN WAVEDESC # {}

\* the call has returned
Returned == pc = "done"

\* the call has ended with an exception
Failed == pc = "error"

\* the number of samples of an amplitude array, one- or two-dimensional
RECURSIVE Count2(_)
Count2(rows) == IF Len(rows) = 0 THEN 0 ELSE Len(rows[1]) + Count2(SubSeq(rows, 2, Len(rows)))

Segmented == "SUBARRAY_COUNT" \in DOMAIN v /\ v["SUBARRAY_COUNT"] > 1

SingleSweep == "SUBARRAY_COUNT" \in DOMAIN v /\ v["SUBARRAY_COUNT"] <= 1

\* the bytes of b up to and including its last non-null byte
TrimNull(b) ==
    LET keep == {k \in 0..Len(b) : k = 0 \/ b[k] # 0}
        n    == CHOOSE k \in keep : \A h \in keep : h <= k
    IN SubSeq(b, 1, n)

\* the k-th base-256 digit of n (digit 0 the least significant), and n
\* without its k low digits
RECURSIVE Shift256(_, _)
Shift256(n, k) == IF k = 0 THEN n ELSE Shift256(n \div 256, k - 1)

Digit256(n, k) == Shift256(n, k) % 256

\* n is the little-endian unsigned integer formed from the bytes b
IsLittleEndianOf(n, b) ==
    /\ n >= 0
    /\ \A k \in 1..Len(b) : Digit256(n, k - 1) = b[k]
    /\ Shift256(n, Len(b)) = 0

-----------------------------------------------------------------------------
(* C1 *)

\* the table-backed enum fields: index name, label name, table, the pc of
\* the step that reads the field
TableEnums ==
    { <<"COMM_TYPE_INDEX", "COMM_TYPE", COMM_TYPE_TABLE>>,
      <<"RECORD_TYPE_INDEX", "RECORD_TYPE", RECORD_TYPE_TABLE>>,
      <<"PROCESSING_DONE_INDEX", "PROCESSING_DONE", PROCESSING_DONE_TABLE>>,
      <<"VERT_COUPLING_INDEX", "VERT_COUPLING", VERT_COUPLING_TABLE>>,
      <<"BANDWIDTH_LIMIT_INDEX", "BANDWIDTH_LIMIT", BANDWIDTH_LIMIT_TABLE>> }

\* C1: a table-backed enum field is resolved to a label only when its raw
\* code lies in 0..(table size - 1), and then to the label at that index;
\* every other code, the negative ones included, ends the decode with an
\* error and never with a label.
C1_EnumCodesInRange ==
    \A e \in TableEnums :
        e[2] \in DOMAIN v =>
            /\ v[e[1]] \in 0..(Len(e[3]) - 1)
            /\ v[e[2]] = e[3][v[e[1]] + 1]

-----------------------------------------------------------------------------
(* C2 *)

\* C2: the 16-bit signed value read low byte first at header-start + 34
\* fixes the byte order: 0 gives HIFIRST and big-endian reads, 1 gives
\* LOFIRST and little-endian reads, and every other value, the negative ones
\* included, ends the decode with an error and selects no byte order.
C2_ByteOrderCode ==
    (Past("order") \/ Failed) /\ HeaderHas(CommOrderOffset, 2) =>
        IF RawLow16(CommOrderOffset) = 0
        THEN v["COMM_ORDER"] = "HIFIRST" /\ co = ">"
        ELSE IF RawLow16(CommOrderOffset) = 1
        THEN v["COMM_ORDER"] = "LOFIRST" /\ co = "<"
        ELSE Failed /\ co = "" /\ "COMM_ORDER" \notin DOMAIN v

-----------------------------------------------------------------------------
(* C3 *)

\* the header around the TIMEBASE field is one the decode accepts: it is
\* complete, its table-backed codes after TIMEBASE are in range and its
\* declared length is the length of the field sequence
RestOfHeaderValid ==
    /\ HeaderHas(0, 346)
    /\ Raw16(326) \in 0..4
    /\ Raw16(334) \in 0..1
    /\ DecodeItem(HeaderBytes(WaveDescriptorOffset, 4), co) = 346

\* C3: when the header passes all the earlier checks and the TIMEBASE raw
\* code is 100, the decode of the header succeeds with the TIMEBASE label
\* "EXTERNAL", whatever FIXED_VERT_GAIN code follows, and the
\* FIXED_VERT_GAIN label is still the {1,2,5} mantissa times a power of ten.
C3_ExternalTimebase ==
    ("TIMEBASE_INDEX" \in DOMAIN v /\ v["TIMEBASE_INDEX"] = ExternalCode
        /\ RestOfHeaderValid) =>
        /\ v["TIMEBASE"] = ExternalLabel
        /\ Failed => HeaderDecoded
        /\ "FIXED_VERT_GAIN" \in DOMAIN v => v["FIXED_VERT_GAIN"].eng.m \in {1, 2, 5}

-----------------------------------------------------------------------------
(* C4 *)

\* C4: a file that ends before a required array has been read in full
\* never decodes: no result is returned whose amplitude arrays hold fewer
\* samples than the time array, that is than the declared WAVE_ARRAY_COUNT.
C4_NoShortArrays ==
    Returned =>
        IF Segmented
        THEN Count2(y1) >= Count2(x)
        ELSE /\ Len(y1) >= Len(x)
             /\ v["WAVE_ARRAY_2"] > 0 => Len(y2) >= Len(x)

-----------------------------------------------------------------------------
(* C5 *)

\* C5: after WAVE_SOURCE the bytes consumed since header-start number 346;
\* for every declared WAVE_DESCRIPTOR other than that the decode ends with
\* the header-length error with nothing read after the header, and when the
\* two are equal the check passes.
C5_HeaderLengthCheck ==
    /\ pc = "sanity" => pos - startOffset = 346
    /\ Past("sanity") => v["WAVE_DESCRIPTOR"] = 346
    /\ (Failed /\ "WAVE_SOURCE" \in DOMAIN v) =>
          IF v["WAVE_DESCRIPTOR"] # 346
          THEN /\ err = ErrDescriptorLength
               /\ pos = startOffset + 346
               /\ ~HeaderDecoded /\ TEXT = <<>> /\ y1 = <<>> /\ y2 = <<>> /\ x = <<>>
          ELSE err # ErrDescriptorLength
    /\ err = ErrDescriptorLength => "WAVE_SOURCE" \in DOMAIN v

\* a declared length one byte more than the header has failed the decode
C5_Witness ==
    /\ err = ErrDescriptorLength
    /\ v["WAVE_DESCRIPTOR"] = 347

-----------------------------------------------------------------------------
(* C6 *)

\* the waveform branch has been entered
InWaveform == HeaderDecoded /\ pc \notin {"usertext", "waveform"}

\* C6: a decode that reaches the waveform with SUBARRAY_COUNT > 1 and
\* WAVE_ARRAY_COUNT not a multiple of it ends with the uneven-segment
\* error, the file position still at the end of the user text: neither a
\* trigger-time pair nor a sample has been read.
C6_UnevenSplitFails ==
    /\ (InWaveform /\ Segmented /\ v["WAVE_ARRAY_COUNT"] % v["SUBARRAY_COUNT"] # 0) =>
          /\ Failed /\ err = ErrSegments
          /\ pos = startOffset + 346 + Len(TEXT)
          /\ trigTime = <<>> /\ trigOffset = <<>>
          /\ x = <<>> /\ y1 = <<>> /\ y2 = <<>>
    /\ err = ErrSegments =>
          Segmented /\ v["WAVE_ARRAY_COUNT"] % v["SUBARRAY_COUNT"] # 0

\* three samples in two segments, after two bytes of user text, have failed
C6_Witness ==
    /\ err = ErrSegments
    /\ v["WAVE_ARRAY_COUNT"] = 3 /\ v["SUBARRAY_COUNT"] = 2
    /\ Len(TEXT) = 2
    /\ Len(file) > pos

-----------------------------------------------------------------------------
(* C7 *)

\* C7: in single-sweep mode, for both sample widths: with WAVE_ARRAY_2 <= 0
\* the secondary channel is empty and nothing is read after the primary
\* array; with WAVE_ARRAY_2 > 0 the secondary channel is read right after
\* the primary array and is as long as the primary channel.
C7_SecondaryChannel ==
    (Returned /\ SingleSweep) =>
        LET w      == IF v["COMM_TYPE_INDEX"] = 0 THEN 1 ELSE 2
            start  == startOffset + 346 + Len(TEXT)
        IN IF v["WAVE_ARRAY_2"] <= 0
           THEN y2 = <<>> /\ pos < start + w * (Len(y1) + 1)
           ELSE Len(y2) = Len(y1) /\ pos >= start + w * (Len(y1) + Len(y2))

-----------------------------------------------------------------------------
(* C8 *)

\* the row-filling loop has run to its end
LoopFinished == Segmented /\ i = v["SUBARRAY_COUNT"]

\* C8: in segmented mode, once the row-filling loop has finished, the time
\* array has SUBARRAY_COUNT rows of WAVE_ARRAY_COUNT / SUBARRAY_COUNT
\* columns, and row r, column c holds c * HORIZ_INTERVAL plus the sum of
\* segment r's own trigger time and trigger offset.
C8_SegmentTimeRows ==
    LoopFinished =>
        /\ Len(x) = v["SUBARRAY_COUNT"]
        /\ \A r \in 1..Len(x) :
              /\ Len(x[r]) * v["SUBARRAY_COUNT"] = v["WAVE_ARRAY_COUNT"]
              /\ \A c \in 1..Len(x[r]) :
                    x[r][c] = (c - 1) * v["HORIZ_INTERVAL"] + (trigTime[r] + trigOffset[r])

\* a decode of three segments has returned, its rows differing by the
\* segments' trigger pairs
C8_Witness ==
    /\ Returned /\ LoopFinished
    /\ v["SUBARRAY_COUNT"] = 3 /\ npts >= 1
    /\ x[1][1] = 11 /\ x[2][1] = 22 /\ x[3][1] = 33

-----------------------------------------------------------------------------
(* C9 *)

\* the fixed-width string fields: name, header offset, width
StringLayout ==
    { <<"DESCRIPTOR_NAME", 0, 16>>, <<"TEMPLATE_NAME", 16, 16>>,
      <<"INSTRUMENT_NAME", 76, 16>>, <<"TRACE_LABEL", 96, 16>>,
      <<"VERTUNIT", 196, 48>>, <<"HORUNIT", 244, 48>> }

\* C9: every fixed-width string field is returned as its raw bytes with
\* only the trailing null padding removed: the decoded string is the bytes
\* up to and including the last non-null byte.
C9_StringsTrimNullOnly ==
    \A f \in StringLayout :
        (f[1] \in DOMAIN v /\ HeaderHas(f[2], f[3])) =>
            v[f[1]] = TrimNull(HeaderBytes(f[2], f[3]))

-----------------------------------------------------------------------------
(* C10 *)

\* C10, read over the whole prefix: FILE_SIZE is the little-endian unsigned integer
\* formed from all the window bytes before the match, plus the match offset.
C10_AllPrefixBytes ==
    "fileSize" \in DOMAIN v =>
        /\ IsLittleEndianOf(v["fileSize"] - startOffset, SubSeq(str2, 1, startOffset))
        /\ v["fileSize"] = 0 => startOffset = 0

\* C10: for every match offset m in 0..24, FILE_SIZE is the little-endian
\* unsigned integer formed from the window bytes 4..m-1 (none when m <= 4),
\* plus m; it is 0 only when the match is at offset 0.
C10_PrefixBytesFromFour ==
    "fileSize" \in DOMAIN v =>
        /\ startOffset \in 0..24
        /\ IsLittleEndianOf(v["fileSize"] - startOffset, SubSeq(str2, 5, startOffset))
        /\ v["fileSize"] = 0 <=> startOffset = 0
        /\ HeaderDecoded => WAVEDESC["FILE_SIZE"] = v["fileSize"]

\* a header found at offset 24 behind a prefix with a byte set after the
\* first four has been decoded
C10_Witness ==
    /\ HeaderDecoded
    /\ startOffset = 24
    /\ str2[6] = 255
    /\ WAVEDESC["FILE_SIZE"] = 255 * 256 + 24

-----------------------------------------------------------------------------
(* float2eng called on its own: the value f = mant * 10^exp is drawn from   *)
(* the one-digit mantissas of either sign and the exponents -MaxExp..MaxExp,*)
(* and the value 0; v holds the argument, then the locals at the return.    *)

MaxExp == 30

Mantissas == {-5, -2, -1, 1, 2, 5, 9}

Values == {[mant |-> 0, exp |-> 0]}
          \cup {[mant |-> m, exp |-> e] : m \in Mantissas, e \in (-MaxExp)..MaxExp}

InitEng ==
    /\ v \in Values
    /\ pc = "float2eng"
    /\ file = <<>>
    /\ pos = 0
    /\ err = ""
    /\ str2 = <<>>
    /\ startOffset = -1
    /\ co = ""
    /\ divisions = <<>>
    /\ WAVEDESC = <<>>
    /\ TEXT = <<>>
    /\ x = <<>>
    /\ y1 = <<>>
    /\ y2 = <<>>
    /\ trigTime = <<>>
    /\ trigOffset = <<>>
    /\ npts = 0
    /\ i = 0

\* lines 29-40: the whole function, its locals kept beside the argument
Float2Eng ==
    /\ pc = "float2eng"
    /\ v' = [f |-> v, out |-> float2eng(v.mant, v.exp)]
    /\ pc' = "formatted"
    /\ UNCHANGED <<file, pos, err, str2, startOffset, co, divisions, WAVEDESC,
                   TEXT, x, y1, y2, trigTime, trigOffset, npts, i>>

NextEng == Float2Eng

SpecEng == InitEng /\ [][NextEng]_vars

-----------------------------------------------------------------------------
(* C11 *)

\* the base-10 exponent of |f|: the e with 10^e <= |f| < 10^(e+1), 0 for f = 0
Base10Exponent(f) == IF f.mant = 0 THEN 0 ELSE f.exp

\* the greatest multiple of 3 not exceeding ex, clamped to [-24, 24]
EngExponentOf(ex) ==
    IF ex < -24 THEN -24
    ELSE IF ex >= 24 THEN 24
    ELSE CHOOSE q \in {3 * k : k \in -8..8} : q <= ex /\ ex < q + 3

\* the SI prefix of each engineering exponent, empty for exponent 0
SI_PREFIX ==
    (-24 :> "y") @@ (-21 :> "z") @@ (-18 :> "a") @@ (-15 :> "f") @@ (-12 :> "p")
    @@ (-9 :> "n") @@ (-6 :> "u") @@ (-3 :> "m") @@ (0 :> "") @@ (3 :> "k")
    @@ (6 :> "M") @@ (9 :> "G") @@ (12 :> "T") @@ (15 :> "P") @@ (18 :> "E")
    @@ (21 :> "Z") @@ (24 :> "Y")

\* C11: for every value, with ex the base-10 exponent of |value| (0 for the
\* value 0), the exponent float2eng uses for the mantissa is the greatest
\* multiple of 3 not exceeding ex, clamped to [-24, 24]; the prefix index
\* (exponent + 24) / 3 lies in 0..16; and the selected prefix is the SI prefix
\* of that exponent: empty for 0, 'y' below -24, 'Y' above 24.
C11_EngineeringExponent ==
    pc = "formatted" =>
        LET ex == Base10Exponent(v.f)
        IN /\ v.out.exeng = EngExponentOf(ex)
           /\ v.out.id \in 0..16
           /\ 3 * v.out.id - 24 = v.out.exeng
           /\ v.out.prefix = SI_PREFIX[EngExponentOf(ex)]

\* the same property read over the exponent the code has computed, ex =
\* floor(log(|f|, 10)) as a double quotient, in place of the exponent of |f|
C11_FromComputedExponent ==
    pc = "formatted" =>
        /\ v.out.exeng = EngExponentOf(v.out.ex)
        /\ v.out.id \in 0..16
        /\ 3 * v.out.id - 24 = v.out.exeng
        /\ v.out.prefix = SI_PREFIX[v.out.exeng]
        /\ v.out.ex < -24 => v.out.prefix = "y"
        /\ v.out.ex > 24 => v.out.prefix = "Y"

\* the computed exponent is the exponent of |f| or one below it
C11_ComputedExponentWithinOne ==
    pc = "formatted" => v.out.ex \in {Base10Exponent(v.f) - 1, Base10Exponent(v.f)}

=============================================================================
